---- MODULE Spec2Model ----
(***************************************************************************)
(* Knowledge-graph merge, upload pipeline, extraction gate, persistence of  *)
(* the graph and layouts of the patient-data application.                  *)
(*                                                                         *)
(* Strings are tuples of one-character strings, so that toLowerCase,       *)
(* toUpperCase, trim and includes are computed character by character.     *)
(***************************************************************************)
EXTENDS Integers, Sequences, FiniteSets, TLC

VARIABLES
    accGraph,     \* SpecMerge: the running accumulatedGraph of a merge sequence
    lastCall,     \* SpecMerge: the last mergeGraphData call (arguments and result)
    handlerPc,    \* SpecExtract: where the extract-knowledge handler stands
    gatewayCalls, \* SpecExtract: the gateway calls the handler has issued, in order
    validation,   \* SpecExtract: the classification reply the handler received
    httpResponse, \* SpecExtract: the response the handler returned
    variant,        \* Spec: which FileUpload processes the batches
    passesExisting, \* Spec: whether the page passes its graph as existingGraphData
    graphData,      \* Spec: the page's in-memory graph
    isProcessing,   \* Spec: the upload component's isProcessing flag
    batch,          \* Spec: the processAllFiles run of every dropped batch
    file,           \* Spec: every file of every batch, its request and its status
    lastProcessed,  \* Spec: the last processWithAI call that returned
    overlapped,     \* Spec: whether two processAllFiles runs have overlapped
    removals,       \* Spec: how many files the user has removed
    shownGraph,       \* SpecSave: the page's graphData
    currentPatientId, \* SpecSave: the page's currentPatientId
    graphAnalysis,    \* SpecSave: the page's graphAnalysis (the graph it is of)
    effects,          \* SpecSave: the runs of the analyzeGraph effect
    table,            \* SpecSave: the rows of knowledge_graphs
    rawNodes,     \* SpecLayout: the node list that is laid out
    lastLayout,   \* SpecLayout: the last layout call (its input and its result)
    form          \* SpecForm: the fields and the submission of PatientInfoForm

mergeVars == <<accGraph, lastCall>>

extractVars == <<handlerPc, gatewayCalls, validation, httpResponse>>

uploadVars == <<variant, passesExisting, graphData, isProcessing, batch, file,
                lastProcessed, overlapped, removals>>

layoutVars == <<rawNodes, lastLayout>>

saveVars == <<shownGraph, currentPatientId, graphAnalysis, effects, table>>

formVars == <<form>>

vars == <<accGraph, lastCall, handlerPc, gatewayCalls, validation, httpResponse,
          variant, passesExisting, graphData, isProcessing, batch, file,
          lastProcessed, overlapped, removals,
          shownGraph, currentPatientId, graphAnalysis, effects, table,
          rawNodes, lastLayout, form>>

----------------------------------------------------------------------------
(* Strings *)

UpperChars == <<"A","B","C","D","E","F","G","H","I","J","K","L","M",
                "N","O","P","Q","R","S","T","U","V","W","X","Y","Z">>
LowerChars == <<"a","b","c","d","e","f","g","h","i","j","k","l","m",
                "n","o","p","q","r","s","t","u","v","w","x","y","z">>

\* the value of an absent property (undefined); no string equals it
UNDEFINED == <<"<undefined>">>

\* the lower-case letter of every upper-case letter
UpperToLower ==
    [c \in {UpperChars[i] : i \in 1..26} |->
        LowerChars[CHOOSE i \in 1..26 : UpperChars[i] = c]]

toLowerCaseChar(c) ==
    IF c \in DOMAIN UpperToLower THEN UpperToLower[c] ELSE c

toUpperCaseChar(c) ==
    IF \E i \in 1..26 : LowerChars[i] = c
      THEN UpperChars[CHOOSE i \in 1..26 : LowerChars[i] = c]
      ELSE c

\* String.prototype.toUpperCase
toUpperCase(s) == [i \in 1..Len(s) |-> toUpperCaseChar(s[i])]

WhiteSpace == {" ", "\n", "\t"}

\* String.prototype.trim
RECURSIVE trim(_)
trim(s) ==
    IF s = <<>> THEN s
    ELSE IF Head(s) \in WhiteSpace THEN trim(Tail(s))
    ELSE IF s[Len(s)] \in WhiteSpace THEN trim(SubSeq(s, 1, Len(s) - 1))
    ELSE s

\* String.prototype.includes
includes(s, t) ==
    \E i \in 0..(Len(s) - Len(t)) : SubSeq(s, i + 1, i + Len(t)) = t

\* String.prototype.toLowerCase
toLowerCase(s) == [i \in 1..Len(s) |-> toLowerCaseChar(s[i])]

\* n.label?.toLowerCase(): undefined stays undefined
OptLowerCase(s) == IF s = UNDEFINED THEN UNDEFINED ELSE toLowerCase(s)

\* ${v} inside a template literal: undefined prints as "undefined"
TemplateStr(v) ==
    IF v = UNDEFINED THEN <<"u","n","d","e","f","i","n","e","d">> ELSE v

----------------------------------------------------------------------------
(* Graphs and fragments *)

\* a graph value: null, or an object whose nodes / edges arrays may be absent
NULL == [null |-> TRUE, hasNodes |-> FALSE, hasEdges |-> FALSE,
         nodes |-> <<>>, edges |-> <<>>]

Graph(ns, es) == [null |-> FALSE, hasNodes |-> TRUE, hasEdges |-> TRUE,
                  nodes |-> ns, edges |-> es]

\* the key of a node in existingNodeLabels
NodeKey(n) == OptLowerCase(n.label)

\* the key of an edge in existingEdgeKeys
EdgeKey(e) ==
    toLowerCase(TemplateStr(e.source) \o <<"-">> \o TemplateStr(e.target)
                \o <<"-">> \o TemplateStr(e.label))

Range(s) == {s[i] : i \in 1..Len(s)}

\* !existing || !existing.nodes?.length
IsEmptyGraph(g) == g.null \/ ~g.hasNodes \/ Len(g.nodes) = 0

\* mergeGraphData raises a TypeError: .map / .filter of an absent array
MergeThrows(existing, newData) ==
    /\ ~IsEmptyGraph(existing)
    /\ (~existing.hasEdges \/ ~newData.hasNodes \/ ~newData.hasEdges)

\* a merge that appends every incoming node without looking at the labels
mergeGraphData_NoNodeFilter(existing, newData) ==
    IF IsEmptyGraph(existing) THEN newData
    ELSE LET existingEdgeKeys == {EdgeKey(e) : e \in Range(existing.edges)}
             uniqueNewEdges ==
                 SelectSeq(newData.edges, LAMBDA e : EdgeKey(e) \notin existingEdgeKeys)
         IN  [existing EXCEPT !.nodes = existing.nodes \o newData.nodes,
                              !.edges = existing.edges \o uniqueNewEdges]

\* a merge in which an incoming node replaces the existing node of its label
mergeGraphData_LastWins(existing, newData) ==
    IF IsEmptyGraph(existing) THEN newData
    ELSE LET newLabels == {NodeKey(n) : n \in Range(newData.nodes)}
             kept == SelectSeq(existing.nodes, LAMBDA n : NodeKey(n) \notin newLabels)
             existingEdgeKeys == {EdgeKey(e) : e \in Range(existing.edges)}
             uniqueNewEdges ==
                 SelectSeq(newData.edges, LAMBDA e : EdgeKey(e) \notin existingEdgeKeys)
         IN  [existing EXCEPT !.nodes = kept \o newData.nodes,
                              !.edges = existing.edges \o uniqueNewEdges]

\* a merge that puts the admitted incoming nodes and edges before the existing
mergeGraphData_NewFirst(existing, newData) ==
    IF IsEmptyGraph(existing) THEN newData
    ELSE LET existingNodeLabels == {NodeKey(n) : n \in Range(existing.nodes)}
             existingEdgeKeys == {EdgeKey(e) : e \in Range(existing.edges)}
             uniqueNewNodes ==
                 SelectSeq(newData.nodes, LAMBDA n : NodeKey(n) \notin existingNodeLabels)
             uniqueNewEdges ==
                 SelectSeq(newData.edges, LAMBDA e : EdgeKey(e) \notin existingEdgeKeys)
         IN  [null |-> FALSE, hasNodes |-> TRUE, hasEdges |-> TRUE,
              nodes |-> uniqueNewNodes \o existing.nodes,
              edges |-> uniqueNewEdges \o existing.edges]

\* mergeGraphData, where it returns (MergeThrows tells where it raises)
mergeGraphData(existing, newData) ==
    IF IsEmptyGraph(existing) THEN newData
    ELSE LET existingNodeLabels == {NodeKey(n) : n \in Range(existing.nodes)}
             existingEdgeKeys == {EdgeKey(e) : e \in Range(existing.edges)}
             uniqueNewNodes ==
                 SelectSeq(newData.nodes, LAMBDA n : NodeKey(n) \notin existingNodeLabels)
             uniqueNewEdges ==
                 SelectSeq(newData.edges, LAMBDA e : EdgeKey(e) \notin existingEdgeKeys)
         IN  [null |-> FALSE, hasNodes |-> TRUE, hasEdges |-> TRUE,
              nodes |-> existing.nodes \o uniqueNewNodes,
              edges |-> existing.edges \o uniqueNewEdges]

----------------------------------------------------------------------------
(* Inputs of the merge sequences *)

MaxFragNodes == 2
MaxMerges == 3

\* a GraphNode; connections is the set of the ids in its connections array
Node(id, label, type, data) ==
    [id |-> id, label |-> label, type |-> type, data |-> data,
     connections |-> {}]

Edge(source, target, label) ==
    [source |-> source, target |-> target, label |-> label]

\* "Flu" and "flu" are one label case-insensitively; "Tb" is another label,
\* on a node that another file's extraction gave the id "a" as well
NodePool ==
    { Node(<<"a">>, <<"F","l","u">>, "condition", "severe"),
      Node(<<"b">>, <<"f","l","u">>, "symptom", "mild"),
      Node(<<"a">>, <<"T","b">>, "symptom", "none") }

\* the two edges are one (source, target, label) triple case-insensitively;
\* the first one joins the nodes "flu" and "Tb" of the pool
EdgePool ==
    { Edge(<<"b">>, <<"a">>, <<"h","a","s">>),
      Edge(<<"B">>, <<"a">>, <<"H","a","s">>) }

\* the lists of at most n different elements of S
ListsUpTo(S, n) ==
    {s \in UNION {[1..k -> S] : k \in 0..n} :
        \A i, j \in 1..Len(s) : i < j => s[i] # s[j]}

\* the ids joined to the id by an edge of the graph
Adjacent(g, id) ==
    {e.target : e \in {x \in Range(g.edges) : x.source = id}}
    \cup {e.source : e \in {x \in Range(g.edges) : x.target = id}}

\* connections of every node are the ids adjacent to it
HasAdjacency(g) ==
    \A n \in Range(g.nodes) : n.connections = Adjacent(g, n.id)

\* the graph with every node's connections filled in from its edges, as the
\* data model describes them
WithConnections(g) ==
    [g EXCEPT !.nodes = [i \in 1..Len(g.nodes) |->
        [g.nodes[i] EXCEPT !.connections = Adjacent(g, g.nodes[i].id)]]]

\* a fragment never holds the same object twice, but it may hold two nodes
\* (or two edges) that differ only in the case of their key
Fragments ==
    {WithConnections(Graph(ns, es)) :
        ns \in ListsUpTo(NodePool, MaxFragNodes),
        es \in ListsUpTo(EdgePool, Cardinality(EdgePool))}

\* every edge of g starts and ends at the id of a node of g
IsClosed(g) ==
    \A e \in Range(g.edges) :
        /\ \E n \in Range(g.nodes) : n.id = e.source
        /\ \E n \in Range(g.nodes) : n.id = e.target

\* no two nodes of g have one id
HasUniqueIds(g) ==
    \A i, j \in 1..Len(g.nodes) : i < j => g.nodes[i].id # g.nodes[j].id

\* closedSoFar: every fragment merged so far was closed;
\* uniqueSoFar: every fragment merged so far had unique node ids;
\* adjacentSoFar: in every fragment merged so far connections were adjacency;
\* merges: the number of calls so far
NoCall == [called |-> FALSE, threw |-> FALSE,
           existing |-> NULL, incoming |-> NULL, result |-> NULL,
           closedSoFar |-> TRUE, uniqueSoFar |-> TRUE, adjacentSoFar |-> TRUE,
           merges |-> 0]

----------------------------------------------------------------------------
(* The upload component and the page: data *)

MaxFiles == 2
MaxSessionFiles == 3
MaxRemovals == 1

\* the first upload batch and one dropped after it
Batches == {1, 2}
FileIdx == 1..MaxFiles

\* a JSON body without nodes and edges arrays
NoArrays == [null |-> FALSE, hasNodes |-> FALSE, hasEdges |-> FALSE,
             nodes |-> <<>>, edges |-> <<>>]

\* what the extract-knowledge request of a file may come back with:
\* response.ok, graphData.error, graphData.isMedical, the arrays of the body,
\* or an exception of fetch / response.json()
Response(ok, error, isMedical, throws, body) ==
    [ok |-> ok, error |-> error, isMedical |-> isMedical, throws |-> throws,
     body |-> body]

FlagFragment ==
    Graph(<<Node(<<"c">>, <<"T","b">>, "symptom", "none")>>, <<>>)

ValidResponses ==
    { Response(TRUE, FALSE, "absent", FALSE,
               Graph(<<Node(<<"a">>, <<"F","l","u">>, "condition", "severe")>>, <<>>)),
      Response(TRUE, FALSE, "absent", FALSE,
               Graph(<<Node(<<"b">>, <<"f","l","u">>, "symptom", "mild"),
                       Node(<<"c">>, <<"T","b">>, "symptom", "none")>>,
                     <<Edge(<<"b">>, <<"c">>, <<"h","a","s">>)>>)) }

\* the 400 of the medical-content gate, an HTTP error, a body with an error
\* field, a body with isMedical false, and a failed request
RejectedResponses ==
    { Response(FALSE, TRUE, "false", FALSE, NoArrays),
      Response(FALSE, FALSE, "absent", FALSE, FlagFragment),
      Response(TRUE, TRUE, "absent", FALSE, FlagFragment),
      Response(TRUE, FALSE, "false", FALSE, FlagFragment),
      Response(FALSE, FALSE, "absent", TRUE, NoArrays) }

\* a body with nodes but without the edges array
NodesOnly ==
    [null |-> FALSE, hasNodes |-> TRUE, hasEdges |-> FALSE,
     nodes |-> <<Node(<<"c">>, <<"T","b">>, "symptom", "none")>>, edges |-> <<>>]

\* a 200 reply that passes the check of processWithAI but lacks an array
MalformedResponses == { Response(TRUE, FALSE, "absent", FALSE, NodesOnly) }

Responses == ValidResponses \cup RejectedResponses \cup MalformedResponses

NoResponseYet == Response(FALSE, FALSE, "absent", FALSE, NULL)

NoBatch ==
    [phase |-> "none", size |-> 0, existing |-> NULL, accumulatedGraph |-> NULL,
     allResults |-> <<>>, pushed |-> <<>>, merged |-> {},
     validCount |-> 0, invalidCount |-> 0, delivered |-> FALSE,
     storageFailed |-> FALSE, successive |-> FALSE]

\* fragment: the body of the file's response once processWithAI found it valid;
\* wellFormed: the response was not rejected and its body has both arrays
NoFile ==
    [listed |-> FALSE, status |-> "none", request |-> "unsent", requests |-> 0,
     fragment |-> NULL, wellFormed |-> FALSE, removedPending |-> FALSE,
     inDelivered |-> FALSE]

NoProcessed ==
    [returned |-> FALSE, response |-> NoResponseYet, graphIn |-> NULL,
     graphOut |-> NULL, isValid |-> FALSE, merged |-> FALSE]

UploadIdle ==
    /\ variant = "sequential"
    /\ passesExisting = FALSE
    /\ graphData = NULL
    /\ isProcessing = FALSE
    /\ batch = [b \in Batches |-> NoBatch]
    /\ file = [b \in Batches |-> [k \in FileIdx |-> NoFile]]
    /\ lastProcessed = NoProcessed
    /\ overlapped = FALSE
    /\ removals = 0

MaxEffects == 3
EffectIdx == 1..MaxEffects

NoPatient == "none"

\* a run of the analyzeGraph effect: the graph and the patient id of the render
\* it started in, where it stands, the row its select found, what it wrote
NoRun == [pc |-> "none", graph |-> NULL, patient |-> NoPatient, existing |-> 0,
          wrote |-> "nothing"]

SaveIdle ==
    /\ shownGraph = NULL
    /\ currentPatientId = NoPatient
    /\ graphAnalysis = NULL
    /\ effects = [i \in EffectIdx |-> NoRun]
    /\ table = <<>>

NoLayout == [kind |-> "none", input |-> <<>>, output |-> <<>>]

LayoutIdle ==
    /\ rawNodes = <<>>
    /\ lastLayout = NoLayout

\* the registration form as it is mounted: empty fields, nothing submitted
NoForm == [name |-> <<>>, age |-> <<>>, isSubmitting |-> FALSE, pid |-> <<>>,
           suffix |-> 0, registered |-> FALSE]

FormIdle == form = NoForm

----------------------------------------------------------------------------
(* The extract-knowledge handler *)

MEDICAL == <<"M","E","D","I","C","A","L">>
NON_MEDICAL == <<"N","O","N","-","M","E","D","I","C","A","L">>

\* validationData.choices?.[0]?.message?.content?.trim().toUpperCase() || ""
ValidationResult(content) ==
    IF content = UNDEFINED THEN <<>> ELSE toUpperCase(trim(content))

\* validationResult.includes("MEDICAL") && !validationResult.includes("NON-MEDICAL")
IsMedical(validationResult) ==
    includes(validationResult, MEDICAL) /\ ~includes(validationResult, NON_MEDICAL)

\* what the classifier may answer, and whether the answer affirms that the
\* content is medical ("yes"), denies it ("no") or does neither ("ambiguous")
ClassifierTexts ==
    { [content |-> <<"M","E","D","I","C","A","L">>, meaning |-> "yes"],
      [content |-> <<" ","M","e","d","i","c","a","l","\n">>, meaning |-> "yes"],
      [content |-> <<"N","O","N","-","M","E","D","I","C","A","L">>, meaning |-> "no"],
      [content |-> <<"n","o","n","-","m","e","d","i","c","a","l"," ">>, meaning |-> "no"],
      [content |-> <<"N","O","T"," ","M","E","D","I","C","A","L">>, meaning |-> "no"],
      [content |-> <<"N","o","n","m","e","d","i","c","a","l">>, meaning |-> "no"],
      [content |-> <<"M","E","D","I","C","A","L"," ","O","R"," ",
                     "N","O","N","-","M","E","D","I","C","A","L">>,
       meaning |-> "ambiguous"],
      [content |-> <<"U","N","S","U","R","E">>, meaning |-> "ambiguous"],
      [content |-> <<>>, meaning |-> "ambiguous"],
      [content |-> UNDEFINED, meaning |-> "ambiguous"] }

\* the statuses of a gateway reply: success, rate limit, payment, failure
GatewayStatuses == {200, 429, 402, 500}

ValidationReplies ==
    {[status |-> 200, content |-> t.content, meaning |-> t.meaning] :
        t \in ClassifierTexts}
    \cup {[status |-> st, content |-> UNDEFINED, meaning |-> "ambiguous"] :
             st \in GatewayStatuses \ {200}}

\* the graphs the extraction tool call may carry
ExtractedGraphs == {F \in Fragments : Len(F.edges) <= 1}

ExtractionReplies ==
    {[status |-> 200, toolCall |-> TRUE, graph |-> F] : F \in ExtractedGraphs}
    \cup {[status |-> st, toolCall |-> FALSE, graph |-> NULL] : st \in GatewayStatuses}

NoValidation == [status |-> 0, content |-> UNDEFINED, meaning |-> "ambiguous"]

NoResponse == [status |-> 0, error |-> FALSE, isMedical |-> "absent", body |-> NULL]

ErrorResponse(st) ==
    [status |-> st, error |-> TRUE, isMedical |-> "absent", body |-> NULL]

\* the 400 reply of the medical-content gate
NonMedicalResponse ==
    [status |-> 400, error |-> TRUE, isMedical |-> "false", body |-> NULL]

\* knowledgeGraph.nodes = [...conditionNodes, ...otherNodes]
ConditionsFirst(g) ==
    [g EXCEPT !.nodes = SelectSeq(g.nodes, LAMBDA n : n.type = "condition")
                        \o SelectSeq(g.nodes, LAMBDA n : n.type # "condition")]

ExtractIdle ==
    /\ handlerPc = "idle"
    /\ gatewayCalls = <<>>
    /\ validation = NoValidation
    /\ httpResponse = NoResponse

ExtractInit ==
    /\ handlerPc = "start"
    /\ gatewayCalls = <<>>
    /\ validation = NoValidation
    /\ httpResponse = NoResponse
    /\ accGraph = NULL
    /\ lastCall = NoCall
    /\ UploadIdle
    /\ SaveIdle
    /\ LayoutIdle
    /\ FormIdle

\* the request arrives: without the file or the API key the handler throws and
\* the catch answers 500; otherwise the classification call is issued
ReceiveRequest(hasFile, hasKey) ==
    /\ handlerPc = "start"
    /\ IF hasFile /\ hasKey
         THEN /\ handlerPc' = "validating"
              /\ gatewayCalls' = Append(gatewayCalls, "classify")
              /\ UNCHANGED httpResponse
         ELSE /\ handlerPc' = "responded"
              /\ httpResponse' = ErrorResponse(500)
              /\ UNCHANGED gatewayCalls
    /\ UNCHANGED validation
    /\ UNCHANGED <<mergeVars, uploadVars, saveVars, layoutVars,
                 formVars>>

\* the classification call returns: a failed call throws (500), a reply that
\* is not medical answers 400, a medical one issues the extraction call
ValidationReturns(r) ==
    /\ handlerPc = "validating"
    /\ validation' = r
    /\ IF r.status # 200
         THEN /\ handlerPc' = "responded"
              /\ httpResponse' = ErrorResponse(500)
              /\ UNCHANGED gatewayCalls
         ELSE IF ~IsMedical(ValidationResult(r.content))
         THEN /\ handlerPc' = "responded"
              /\ httpResponse' = NonMedicalResponse
              /\ UNCHANGED gatewayCalls
         ELSE /\ handlerPc' = "extracting"
              /\ gatewayCalls' = Append(gatewayCalls, "extract")
              /\ UNCHANGED httpResponse
    /\ UNCHANGED <<mergeVars, uploadVars, saveVars, layoutVars,
                 formVars>>

\* the extraction call returns: 429 and 402 are passed on, any other failure
\* or a reply without the tool call throws (500), a graph is answered with 200
ExtractionReturns(r) ==
    /\ handlerPc = "extracting"
    /\ handlerPc' = "responded"
    /\ httpResponse' =
          IF r.status # 200
            THEN IF r.status = 429 THEN ErrorResponse(429)
                 ELSE IF r.status = 402 THEN ErrorResponse(402)
                 ELSE ErrorResponse(500)
          ELSE IF ~r.toolCall THEN ErrorResponse(500)
          ELSE [status |-> 200, error |-> FALSE, isMedical |-> "absent",
                body |-> ConditionsFirst(r.graph)]
    /\ UNCHANGED <<gatewayCalls, validation>>
    /\ UNCHANGED <<mergeVars, uploadVars, saveVars, layoutVars,
                 formVars>>

ExtractNext ==
    \/ \E hasFile, hasKey \in BOOLEAN : ReceiveRequest(hasFile, hasKey)
    \/ \E r \in ValidationReplies : ValidationReturns(r)
    \/ \E r \in ExtractionReplies : ExtractionReturns(r)

SpecExtract == ExtractInit /\ [][ExtractNext]_vars

----------------------------------------------------------------------------
(* SpecMerge: sequences of mergeGraphData calls on a running accumulator *)

MergeInit ==
    /\ accGraph = NULL
    /\ lastCall = NoCall
    /\ ExtractIdle
    /\ UploadIdle
    /\ SaveIdle
    /\ LayoutIdle
    /\ FormIdle

\* accumulatedGraph = mergeGraphData(accumulatedGraph, graphData); a TypeError
\* is caught by processWithAI, which returns the accumulated graph it was given
MergeCall(F) ==
    /\ lastCall.merges < MaxMerges
    /\ accGraph' = IF MergeThrows(accGraph, F) THEN accGraph
                   ELSE mergeGraphData(accGraph, F)
    /\ lastCall' = [called |-> TRUE, threw |-> MergeThrows(accGraph, F),
                    existing |-> accGraph, incoming |-> F,
                    result |-> accGraph',
                    closedSoFar |-> (lastCall.closedSoFar /\ IsClosed(F)),
                    uniqueSoFar |-> (lastCall.uniqueSoFar /\ HasUniqueIds(F)),
                    adjacentSoFar |-> (lastCall.adjacentSoFar /\ HasAdjacency(F)),
                    merges |-> lastCall.merges + 1]
    /\ UNCHANGED <<extractVars, uploadVars, saveVars, layoutVars,
                 formVars>>

\* a body with edges but without the nodes array
EdgesOnly ==
    [null |-> FALSE, hasNodes |-> FALSE, hasEdges |-> TRUE,
     nodes |-> <<>>, edges |-> <<Edge(<<"b">>, <<"a">>, <<"h","a","s">>)>>]

\* fragments whose nodes array or edges array is missing
MalformedFragments == {NoArrays, NodesOnly, EdgesOnly}

MergeNext == \E F \in Fragments \cup MalformedFragments : MergeCall(F)

SpecMerge == MergeInit /\ [][MergeNext]_vars

----------------------------------------------------------------------------
(* Spec: the upload component (sequential and parallel processAllFiles) *)

\* the component is the sequential one, the parallel one or the one that
\* processes a single file; the last one has no existingGraphData property
Init ==
    /\ variant \in {"sequential", "parallel", "single"}
    /\ passesExisting \in BOOLEAN
    /\ variant = "single" => ~passesExisting
    /\ graphData = NULL
    /\ isProcessing = FALSE
    /\ batch = [b \in Batches |-> NoBatch]
    /\ file = [b \in Batches |-> [k \in FileIdx |-> NoFile]]
    /\ lastProcessed = NoProcessed
    /\ overlapped = FALSE
    /\ removals = 0
    /\ accGraph = NULL
    /\ lastCall = NoCall
    /\ ExtractIdle
    /\ SaveIdle
    /\ LayoutIdle
    /\ FormIdle

\* a check that looks at the HTTP status alone
IsRejected_StatusOnly(r) == ~r.ok

\* !response.ok || graphData.error || graphData.isMedical === false
IsRejected(r) == ~r.ok \/ r.error \/ r.isMedical = "false"

\* processWithAI from the moment its request comes back: the graph and the
\* validity it returns, and whether it called mergeGraphData
ProcessWithAI(accumulatedGraph, r) ==
    IF r.throws \/ IsRejected(r)
      THEN [graph |-> accumulatedGraph, isValid |-> FALSE, merged |-> FALSE]
    ELSE IF MergeThrows(accumulatedGraph, r.body)
      THEN [graph |-> accumulatedGraph, isValid |-> FALSE, merged |-> TRUE]
    ELSE [graph |-> mergeGraphData(accumulatedGraph, r.body), isValid |-> TRUE,
          merged |-> TRUE]

\* updateFileStatus: only a file still in uploadedFiles gets the status
updateFileStatus(f, status) == IF f.listed THEN [f EXCEPT !.status = status] ELSE f

\* processWithAI up to its fetch: the file shows as processing, the request is out
SendRequest(f) ==
    [updateFileStatus(f, "processing") EXCEPT !.request = "pending",
                                              !.requests = @ + 1]

\* the fetch of the single-file component, which keeps no status
SendRequestSingle(f) == [f EXCEPT !.request = "pending", !.requests = @ + 1]

\* the fold of the parallel variant raises when one of its merges raises
RECURSIVE FoldThrows(_, _)
FoldThrows(g, results) ==
    IF results = <<>> THEN FALSE
    ELSE MergeThrows(g, Head(results))
         \/ FoldThrows(mergeGraphData(g, Head(results)), Tail(results))

\* for (const graphResult of allResults) finalGraph = mergeGraphData(finalGraph, graphResult)
RECURSIVE Fold(_, _)
Fold(g, results) ==
    IF results = <<>> THEN g
    ELSE Fold(mergeGraphData(g, Head(results)), Tail(results))

\* validCount > 0 && graph && graph.nodes?.length > 0
Delivers(validCount, g) == validCount > 0 /\ ~IsEmptyGraph(g)

\* onDrop: the files are written to storage (a write that fails is logged and
\* the loop goes on), they join uploadedFiles as pending and processAllFiles
\* is scheduled with the existingGraphData of the render the drop happened in
Drop(b, n, storageFailed) ==
    /\ batch[b].phase = "none"
    /\ b > 1 => batch[b - 1].phase # "none"
    /\ n + (IF b > 1 THEN batch[b - 1].size ELSE 0) <= MaxSessionFiles
    /\ batch' = [batch EXCEPT ![b] =
                   [NoBatch EXCEPT !.phase = "dropped", !.size = n,
                                   !.storageFailed = storageFailed,
                                   !.successive =
                                       (b > 1 /\ batch[b - 1].phase = "done"),
                                   !.existing = IF passesExisting THEN graphData
                                                ELSE NULL]]
    /\ file' = [file EXCEPT ![b] =
                  [k \in FileIdx |->
                      IF k <= n
                        THEN [NoFile EXCEPT !.listed = TRUE,
                                            !.status = IF variant = "single"
                                                         THEN "none" ELSE "pending"]
                      ELSE NoFile]]
    /\ UNCHANGED <<variant, passesExisting, graphData, isProcessing,
                   lastProcessed, overlapped, removals>>
    /\ UNCHANGED <<mergeVars, extractVars, saveVars, layoutVars,
                 formVars>>

\* processAllFiles starts: isProcessing is set, and the first request (all the
\* requests, in the parallel variant) is issued; the single-file component
\* calls processWithAI(newFiles[0]) and nothing else
StartProcessing(b) ==
    /\ batch[b].phase = "dropped"
    /\ isProcessing' = TRUE
    /\ overlapped' = (overlapped \/ \E c \in Batches : batch[c].phase = "running")
    /\ batch' = [batch EXCEPT ![b].phase = "running",
                              ![b].accumulatedGraph = batch[b].existing]
    /\ file' = [file EXCEPT ![b] =
                  [k \in FileIdx |->
                      IF variant = "single" /\ k = 1
                        THEN SendRequestSingle(file[b][k])
                      ELSE IF k <= batch[b].size /\ (variant = "parallel" \/ k = 1)
                        THEN SendRequest(file[b][k])
                      ELSE file[b][k]]]
    /\ UNCHANGED <<variant, passesExisting, graphData, lastProcessed, removals>>
    /\ UNCHANGED <<mergeVars, extractVars, saveVars, layoutVars,
                 formVars>>

\* the sequential loop: the request of file k comes back, its fragment is
\* merged into the running graph, and either the next request is issued or
\* the batch ends with the summary, the delivery and isProcessing reset
RespondsSequential(b, k, r) ==
    /\ variant = "sequential"
    /\ batch[b].phase = "running"
    /\ file[b][k].request = "pending"
    /\ \E result \in {ProcessWithAI(batch[b].accumulatedGraph, r)} :
       LET last == (k = batch[b].size)
           valid == batch[b].validCount + (IF result.isValid THEN 1 ELSE 0)
           merged == IF result.isValid THEN batch[b].merged \cup {k}
                     ELSE batch[b].merged
           delivers == last /\ Delivers(valid, result.graph)
           settled == [updateFileStatus(file[b][k],
                                        IF result.isValid THEN "valid" ELSE "invalid")
                         EXCEPT !.request = "settled",
                                !.fragment = IF result.isValid THEN r.body ELSE NULL,
                                !.wellFormed = r \in ValidResponses]
       IN  /\ lastProcessed' =
                 [returned |-> TRUE, response |-> r,
                  graphIn |-> batch[b].accumulatedGraph,
                  graphOut |-> result.graph, isValid |-> result.isValid,
                  merged |-> result.merged]
           /\ batch' = [batch EXCEPT
                 ![b].accumulatedGraph = result.graph,
                 ![b].validCount = valid,
                 ![b].invalidCount = @ + (IF result.isValid THEN 0 ELSE 1),
                 ![b].merged = merged,
                 ![b].phase = IF last THEN "done" ELSE "running",
                 ![b].delivered = delivers]
           /\ file' = [file EXCEPT ![b] =
                 [j \in FileIdx |->
                     IF j = k
                       THEN [settled EXCEPT !.inDelivered = delivers /\ k \in merged]
                     ELSE IF j = k + 1 /\ ~last THEN SendRequest(file[b][j])
                     ELSE [file[b][j] EXCEPT
                             !.inDelivered = delivers /\ j \in merged]]]
           /\ graphData' = IF delivers THEN result.graph ELSE graphData
           /\ isProcessing' = IF last THEN FALSE ELSE isProcessing
    /\ UNCHANGED <<variant, passesExisting, overlapped, removals>>
    /\ UNCHANGED <<mergeVars, extractVars, saveVars, layoutVars,
                 formVars>>

\* the parallel variant: the request of any file comes back and its result is
\* pushed; when it was the last one, Promise.all resolves, the results are
\* folded into existingGraphData and the batch ends (unless the fold raises)
RespondsParallel(b, k, r) ==
    /\ variant = "parallel"
    /\ batch[b].phase = "running"
    /\ file[b][k].request = "pending"
    /\ \E result \in {ProcessWithAI(NULL, r)} :
       \E allResults \in {IF result.isValid /\ ~result.graph.null
                             THEN Append(batch[b].allResults, result.graph)
                             ELSE batch[b].allResults} :
       \E finalGraph \in {Fold(batch[b].existing, allResults)} :
       LET accepted == result.isValid /\ ~result.graph.null
           pushed == IF accepted THEN Append(batch[b].pushed, k)
                     ELSE batch[b].pushed
           valid == batch[b].validCount + (IF accepted THEN 1 ELSE 0)
           last == \A j \in 1..batch[b].size :
                       j # k => file[b][j].request = "settled"
           throws == last /\ FoldThrows(batch[b].existing, allResults)
           delivers == last /\ ~throws /\ Delivers(valid, finalGraph)
           settled == [updateFileStatus(file[b][k],
                                        IF result.isValid THEN "valid" ELSE "invalid")
                         EXCEPT !.request = "settled",
                                !.fragment = IF result.isValid THEN r.body ELSE NULL,
                                !.wellFormed = r \in ValidResponses]
       IN  /\ lastProcessed' =
                 [returned |-> TRUE, response |-> r, graphIn |-> NULL,
                  graphOut |-> result.graph, isValid |-> result.isValid,
                  merged |-> result.merged]
           /\ batch' = [batch EXCEPT
                 ![b].allResults = allResults,
                 ![b].pushed = pushed,
                 ![b].validCount = valid,
                 ![b].invalidCount = @ + (IF accepted THEN 0 ELSE 1),
                 ![b].merged = IF last /\ ~throws THEN Range(pushed) ELSE @,
                 ![b].accumulatedGraph =
                     IF last /\ ~throws THEN finalGraph ELSE @,
                 ![b].phase = IF throws THEN "failed"
                              ELSE IF last THEN "done" ELSE "running",
                 ![b].delivered = delivers]
           /\ file' = [file EXCEPT ![b] =
                 [j \in FileIdx |->
                     [(IF j = k THEN settled ELSE file[b][j]) EXCEPT
                         !.inDelivered = delivers /\ j \in Range(pushed)]]]
           /\ graphData' = IF delivers THEN finalGraph ELSE graphData
           /\ isProcessing' = IF last /\ ~throws THEN FALSE ELSE isProcessing
    /\ UNCHANGED <<variant, passesExisting, overlapped, removals>>
    /\ UNCHANGED <<mergeVars, extractVars, saveVars, layoutVars,
                 formVars>>

\* the single-file component: a rejection or an exception removes the file
\* from the list, any other response is delivered as the graph, unmerged
RespondsSingle(b, r) ==
    /\ variant = "single"
    /\ batch[b].phase = "running"
    /\ file[b][1].request = "pending"
    /\ LET rejected == r.throws \/ IsRejected(r)
       IN  /\ lastProcessed' =
                 [returned |-> TRUE, response |-> r, graphIn |-> NULL,
                  graphOut |-> IF rejected THEN NULL ELSE r.body,
                  isValid |-> ~rejected, merged |-> FALSE]
           /\ batch' = [batch EXCEPT
                 ![b].accumulatedGraph = IF rejected THEN NULL ELSE r.body,
                 ![b].validCount = IF rejected THEN 0 ELSE 1,
                 ![b].invalidCount = IF rejected THEN 1 ELSE 0,
                 ![b].merged = IF rejected THEN {} ELSE {1},
                 ![b].phase = "done",
                 ![b].delivered = ~rejected]
           /\ file' = [file EXCEPT ![b][1] =
                 [@ EXCEPT !.request = "settled",
                           !.listed = IF rejected THEN FALSE ELSE @,
                           !.fragment = IF rejected THEN NULL ELSE r.body,
                           !.wellFormed = r \in ValidResponses,
                           !.inDelivered = ~rejected]]
           /\ graphData' = IF rejected THEN graphData ELSE r.body
           /\ isProcessing' = FALSE
    /\ UNCHANGED <<variant, passesExisting, overlapped, removals>>
    /\ UNCHANGED <<mergeVars, extractVars, saveVars, layoutVars,
                 formVars>>

\* removeFile: the file leaves uploadedFiles; its request is not touched
RemoveFile(b, k) ==
    /\ file[b][k].listed
    /\ removals < MaxRemovals
    /\ removals' = removals + 1
    /\ file' = [file EXCEPT ![b][k].listed = FALSE,
                            ![b][k].removedPending = (file[b][k].request = "pending")]
    /\ UNCHANGED <<variant, passesExisting, graphData, isProcessing, batch,
                   lastProcessed, overlapped>>
    /\ UNCHANGED <<mergeVars, extractVars, saveVars, layoutVars,
                 formVars>>

Next ==
    \/ \E b \in Batches, n \in FileIdx, storageFailed \in BOOLEAN :
           Drop(b, n, storageFailed)
    \/ \E b \in Batches : StartProcessing(b)
    \/ \E b \in Batches, k \in FileIdx, r \in Responses : RespondsSequential(b, k, r)
    \/ \E b \in Batches, k \in FileIdx, r \in Responses : RespondsParallel(b, k, r)
    \/ \E b \in Batches, r \in Responses : RespondsSingle(b, r)
    \/ \E b \in Batches, k \in FileIdx : RemoveFile(b, k)

Spec == Init /\ [][Next]_vars

----------------------------------------------------------------------------
(* SpecSave: the page's analyzeGraph effect and saveKnowledgeGraph *)

Patients == {"p1", "p2"}

\* the graphs onKnowledgeGraphGenerated hands to the page
SaveGraphs == {r.body : r \in ValidResponses} \cup {Graph(<<>>, <<>>)}

SaveInit ==
    /\ SaveIdle
    /\ LayoutIdle
    /\ FormIdle
    /\ accGraph = NULL
    /\ lastCall = NoCall
    /\ ExtractIdle
    /\ UploadIdle

\* the effect of [graphData, currentPatientId]: nothing without a non-empty
\* graph, otherwise a run of analyzeGraph that has sent its request
StartEffect(g, p) ==
    IF IsEmptyGraph(g) THEN effects
    ELSE LET i == CHOOSE j \in EffectIdx :
                      /\ effects[j].pc = "none"
                      /\ \A k \in 1..(j - 1) : effects[k].pc # "none"
         IN  [effects EXCEPT ![i] = [NoRun EXCEPT !.pc = "analyzing",
                                                  !.graph = g, !.patient = p]]

\* onKnowledgeGraphGenerated: setGraphData(data), and the effect runs
SetGraphData(g) ==
    /\ effects[MaxEffects].pc = "none"
    /\ g # shownGraph
    /\ shownGraph' = g
    /\ effects' = StartEffect(g, currentPatientId)
    /\ UNCHANGED <<currentPatientId, graphAnalysis, table>>
    /\ UNCHANGED <<mergeVars, extractVars, uploadVars, layoutVars,
                 formVars>>

\* onPatientCreated: setCurrentPatientId(patientId), and the effect runs
SetCurrentPatientId(p) ==
    /\ effects[MaxEffects].pc = "none"
    /\ p # currentPatientId
    /\ currentPatientId' = p
    /\ effects' = StartEffect(shownGraph, p)
    /\ UNCHANGED <<shownGraph, graphAnalysis, table>>
    /\ UNCHANGED <<mergeVars, extractVars, uploadVars, layoutVars,
                 formVars>>

\* the analyze-graph request of run i comes back: a failure is caught and the
\* run ends; otherwise the analysis is shown and, with a patient, the save
\* starts with its select
AnalyzeReturns(i, ok) ==
    /\ effects[i].pc = "analyzing"
    /\ graphAnalysis' = IF ok THEN effects[i].graph ELSE graphAnalysis
    /\ effects' = [effects EXCEPT ![i].pc =
                      IF ok /\ effects[i].patient # NoPatient
                        THEN "selecting" ELSE "done"]
    /\ UNCHANGED <<shownGraph, currentPatientId, table>>
    /\ UNCHANGED <<mergeVars, extractVars, uploadVars, layoutVars,
                 formVars>>

\* the rows of the patient
RowsOf(p) == {j \in 1..Len(table) : table[j].patient = p}

\* .select("id").eq("patient_id", patientId).maybeSingle(): the row when there
\* is exactly one, no data otherwise
MaybeSingle(p) ==
    IF Cardinality(RowsOf(p)) = 1 THEN CHOOSE j \in RowsOf(p) : TRUE ELSE 0

\* the select of saveKnowledgeGraph comes back
SelectReturns(i) ==
    /\ effects[i].pc = "selecting"
    /\ effects' = [effects EXCEPT ![i].pc = "writing",
                                  ![i].existing = MaybeSingle(effects[i].patient)]
    /\ UNCHANGED <<shownGraph, currentPatientId, graphAnalysis, table>>
    /\ UNCHANGED <<mergeVars, extractVars, uploadVars, layoutVars,
                 formVars>>

\* the write of saveKnowledgeGraph: an update of the row the select found, or
\* an insert; the insert of a second row for a patient is accepted or refused
\* by the table, and a refusal is not looked at
WriteReturns(i, accepted) ==
    /\ effects[i].pc = "writing"
    /\ accepted \/ (effects[i].existing = 0 /\ RowsOf(effects[i].patient) # {})
    /\ LET row == [patient |-> effects[i].patient, graph |-> effects[i].graph,
                   analysis |-> effects[i].graph]
       IN  IF effects[i].existing # 0
             THEN /\ table' = [table EXCEPT ![effects[i].existing] = row]
                  /\ effects' = [effects EXCEPT ![i].pc = "done",
                                                ![i].wrote = "update"]
           ELSE IF accepted
             THEN /\ table' = Append(table, row)
                  /\ effects' = [effects EXCEPT ![i].pc = "done",
                                                ![i].wrote = "insert"]
           ELSE /\ table' = table
                /\ effects' = [effects EXCEPT ![i].pc = "done",
                                              ![i].wrote = "refused"]
    /\ UNCHANGED <<shownGraph, currentPatientId, graphAnalysis>>
    /\ UNCHANGED <<mergeVars, extractVars, uploadVars, layoutVars,
                 formVars>>

SaveNext ==
    \/ \E g \in SaveGraphs : SetGraphData(g)
    \/ \E p \in Patients : SetCurrentPatientId(p)
    \/ \E i \in EffectIdx, ok \in BOOLEAN : AnalyzeReturns(i, ok)
    \/ \E i \in EffectIdx : SelectReturns(i)
    \/ \E i \in EffectIdx, accepted \in BOOLEAN : WriteReturns(i, accepted)

SpecSave == SaveInit /\ [][SaveNext]_vars

----------------------------------------------------------------------------
(* SpecLayout: applyCircularLayout and the layout of extract-knowledge.     *)
(* Coordinates are in hundredths, so that the halves of the server layout   *)
(* and the unrounded positions of the client layout are integers.           *)

MaxLayoutFragNodes == 2
MaxConditions == 9
MaxOthers == 2
MaxCrowd == 19

\* Math.cos((k / n) * 2 * Math.PI) in millionths, at [n][k + 1]
TurnCos ==
    <<
       <<1000000>>,
       <<1000000, -1000000>>,
       <<1000000, -500000, -500000>>,
       <<1000000, 0, -1000000, 0>>,
       <<1000000, 309017, -809017, -809017, 309017>>,
       <<1000000, 500000, -500000, -1000000, -500000, 500000>>,
       <<1000000, 623490, -222521, -900969, -900969, -222521, 623490>>,
       <<1000000, 707107, 0, -707107, -1000000, -707107, 0, 707107>>,
       <<1000000, 766044, 173648, -500000, -939693, -939693, -500000, 173648,
         766044>>,
       <<1000000, 809017, 309017, -309017, -809017, -1000000, -809017,
         -309017, 309017, 809017>>,
       <<1000000, 841254, 415415, -142315, -654861, -959493, -959493,
         -654861, -142315, 415415, 841254>>,
       <<1000000, 866025, 500000, 0, -500000, -866025, -1000000, -866025,
         -500000, 0, 500000, 866025>>,
       <<1000000, 885456, 568065, 120537, -354605, -748511, -970942, -970942,
         -748511, -354605, 120537, 568065, 885456>>,
       <<1000000, 900969, 623490, 222521, -222521, -623490, -900969,
         -1000000, -900969, -623490, -222521, 222521, 623490, 900969>>,
       <<1000000, 913545, 669131, 309017, -104528, -500000, -809017, -978148,
         -978148, -809017, -500000, -104528, 309017, 669131, 913545>>,
       <<1000000, 923880, 707107, 382683, 0, -382683, -707107, -923880,
         -1000000, -923880, -707107, -382683, 0, 382683, 707107, 923880>>,
       <<1000000, 932472, 739009, 445738, 92268, -273663, -602635, -850217,
         -982973, -982973, -850217, -602635, -273663, 92268, 445738, 739009,
         932472>>,
       <<1000000, 939693, 766044, 500000, 173648, -173648, -500000, -766044,
         -939693, -1000000, -939693, -766044, -500000, -173648, 173648,
         500000, 766044, 939693>>,
       <<1000000, 945817, 789141, 546948, 245485, -82579, -401695, -677282,
         -879474, -986361, -986361, -879474, -677282, -401695, -82579,
         245485, 546948, 789141, 945817>>,
       <<1000000, 951057, 809017, 587785, 309017, 0, -309017, -587785,
         -809017, -951057, -1000000, -951057, -809017, -587785, -309017, 0,
         309017, 587785, 809017, 951057>>,
       <<1000000, 955573, 826239, 623490, 365341, 74730, -222521, -500000,
         -733052, -900969, -988831, -988831, -900969, -733052, -500000,
         -222521, 74730, 365341, 623490, 826239, 955573>>,
       <<1000000, 959493, 841254, 654861, 415415, 142315, -142315, -415415,
         -654861, -841254, -959493, -1000000, -959493, -841254, -654861,
         -415415, -142315, 142315, 415415, 654861, 841254, 959493>>,
       <<1000000, 962917, 854419, 682553, 460065, 203456, -68242, -334880,
         -576680, -775711, -917211, -990686, -990686, -917211, -775711,
         -576680, -334880, -68242, 203456, 460065, 682553, 854419, 962917>>,
       <<1000000, 965926, 866025, 707107, 500000, 258819, 0, -258819,
         -500000, -707107, -866025, -965926, -1000000, -965926, -866025,
         -707107, -500000, -258819, 0, 258819, 500000, 707107, 866025,
         965926>>,
       <<1000000, 968583, 876307, 728969, 535827, 309017, 62791, -187381,
         -425779, -637424, -809017, -929776, -992115, -992115, -929776,
         -809017, -637424, -425779, -187381, 62791, 309017, 535827, 728969,
         876307, 968583>>,
       <<1000000, 970942, 885456, 748511, 568065, 354605, 120537, -120537,
         -354605, -568065, -748511, -885456, -970942, -1000000, -970942,
         -885456, -748511, -568065, -354605, -120537, 120537, 354605, 568065,
         748511, 885456, 970942>>,
       <<1000000, 973045, 893633, 766044, 597159, 396080, 173648, -58145,
         -286803, -500000, -686242, -835488, -939693, -993238, -993238,
         -939693, -835488, -686242, -500000, -286803, -58145, 173648, 396080,
         597159, 766044, 893633, 973045>>,
       <<1000000, 974928, 900969, 781831, 623490, 433884, 222521, 0, -222521,
         -433884, -623490, -781831, -900969, -974928, -1000000, -974928,
         -900969, -781831, -623490, -433884, -222521, 0, 222521, 433884,
         623490, 781831, 900969, 974928>>,
       <<1000000, 976621, 907575, 796093, 647386, 468408, 267528, 54139,
         -161782, -370138, -561187, -725995, -856857, -947653, -994138,
         -994138, -947653, -856857, -725995, -561187, -370138, -161782,
         54139, 267528, 468408, 647386, 796093, 907575, 976621>>,
       <<1000000, 978148, 913545, 809017, 669131, 500000, 309017, 104528,
         -104528, -309017, -500000, -669131, -809017, -913545, -978148,
         -1000000, -978148, -913545, -809017, -669131, -500000, -309017,
         -104528, 104528, 309017, 500000, 669131, 809017, 913545, 978148>>
    >>

\* Math.sin((k / n) * 2 * Math.PI) in millionths, at [n][k + 1]
TurnSin ==
    <<
       <<0>>,
       <<0, 0>>,
       <<0, 866025, -866025>>,
       <<0, 1000000, 0, -1000000>>,
       <<0, 951057, 587785, -587785, -951057>>,
       <<0, 866025, 866025, 0, -866025, -866025>>,
       <<0, 781831, 974928, 433884, -433884, -974928, -781831>>,
       <<0, 707107, 1000000, 707107, 0, -707107, -1000000, -707107>>,
       <<0, 642788, 984808, 866025, 342020, -342020, -866025, -984808,
         -642788>>,
       <<0, 587785, 951057, 951057, 587785, 0, -587785, -951057, -951057,
         -587785>>,
       <<0, 540641, 909632, 989821, 755750, 281733, -281733, -755750,
         -989821, -909632, -540641>>,
       <<0, 500000, 866025, 1000000, 866025, 500000, 0, -500000, -866025,
         -1000000, -866025, -500000>>,
       <<0, 464723, 822984, 992709, 935016, 663123, 239316, -239316, -663123,
         -935016, -992709, -822984, -464723>>,
       <<0, 433884, 781831, 974928, 974928, 781831, 433884, 0, -433884,
         -781831, -974928, -974928, -781831, -433884>>,
       <<0, 406737, 743145, 951057, 994522, 866025, 587785, 207912, -207912,
         -587785, -866025, -994522, -951057, -743145, -406737>>,
       <<0, 382683, 707107, 923880, 1000000, 923880, 707107, 382683, 0,
         -382683, -707107, -923880, -1000000, -923880, -707107, -382683>>,
       <<0, 361242, 673696, 895163, 995734, 961826, 798017, 526432, 183750,
         -183750, -526432, -798017, -961826, -995734, -895163, -673696,
         -361242>>,
       <<0, 342020, 642788, 866025, 984808, 984808, 866025, 642788, 342020,
         0, -342020, -642788, -866025, -984808, -984808, -866025, -642788,
         -342020>>,
       <<0, 324699, 614213, 837166, 969400, 996584, 915773, 735724, 475947,
         164595, -164595, -475947, -735724, -915773, -996584, -969400,
         -837166, -614213, -324699>>,
       <<0, 309017, 587785, 809017, 951057, 1000000, 951057, 809017, 587785,
         309017, 0, -309017, -587785, -809017, -951057, -1000000, -951057,
         -809017, -587785, -309017>>,
       <<0, 294755, 563320, 781831, 930874, 997204, 974928, 866025, 680173,
         433884, 149042, -149042, -433884, -680173, -866025, -974928,
         -997204, -930874, -781831, -563320, -294755>>,
       <<0, 281733, 540641, 755750, 909632, 989821, 989821, 909632, 755750,
         540641, 281733, 0, -281733, -540641, -755750, -909632, -989821,
         -989821, -909632, -755750, -540641, -281733>>,
       <<0, 269797, 519584, 730836, 887885, 979084, 997669, 942261, 816970,
         631088, 398401, 136167, -136167, -398401, -631088, -816970, -942261,
         -997669, -979084, -887885, -730836, -519584, -269797>>,
       <<0, 258819, 500000, 707107, 866025, 965926, 1000000, 965926, 866025,
         707107, 500000, 258819, 0, -258819, -500000, -707107, -866025,
         -965926, -1000000, -965926, -866025, -707107, -500000, -258819>>,
       <<0, 248690, 481754, 684547, 844328, 951057, 998027, 982287, 904827,
         770513, 587785, 368125, 125333, -125333, -368125, -587785, -770513,
         -904827, -982287, -998027, -951057, -844328, -684547, -481754,
         -248690>>,
       <<0, 239316, 464723, 663123, 822984, 935016, 992709, 992709, 935016,
         822984, 663123, 464723, 239316, 0, -239316, -464723, -663123,
         -822984, -935016, -992709, -992709, -935016, -822984, -663123,
         -464723, -239316>>,
       <<0, 230616, 448799, 642788, 802123, 918216, 984808, 998308, 957990,
         866025, 727374, 549509, 342020, 116093, -116093, -342020, -549509,
         -727374, -866025, -957990, -998308, -984808, -918216, -802123,
         -642788, -448799, -230616>>,
       <<0, 222521, 433884, 623490, 781831, 900969, 974928, 1000000, 974928,
         900969, 781831, 623490, 433884, 222521, 0, -222521, -433884,
         -623490, -781831, -900969, -974928, -1000000, -974928, -900969,
         -781831, -623490, -433884, -222521>>,
       <<0, 214970, 419889, 605174, 762162, 883512, 963550, 998533, 986827,
         928977, 827689, 687699, 515554, 319302, 108119, -108119, -319302,
         -515554, -687699, -827689, -928977, -986827, -998533, -963550,
         -883512, -762162, -605174, -419889, -214970>>,
       <<0, 207912, 406737, 587785, 743145, 866025, 951057, 994522, 994522,
         951057, 866025, 743145, 587785, 406737, 207912, 0, -207912, -406737,
         -587785, -743145, -866025, -951057, -994522, -994522, -951057,
         -866025, -743145, -587785, -406737, -207912>>
    >>

\* Math.round: the nearest integer, a half going up
RoundDiv(a, b) == (2 * a + b) \div (2 * b)

\* a number of the source, in hundredths
Px(v) == v * 100

\* a node as the layouts see it: conn is connections.length, hasXY tells
\* whether x and y are set
LNode(id, label, type, conn, hasXY, x, y) ==
    [id |-> id, label |-> label, type |-> type, conn |-> conn,
     hasXY |-> hasXY, x |-> x, y |-> y]

\* { ...node, x, y }
Place(n, x, y) == [n EXCEPT !.hasXY = TRUE, !.x = x, !.y = y]

\* nodes of extraction results: two conditions, two symptoms, a medication,
\* and a second node of the id "c" under another label
LayoutPool ==
    { LNode(<<"a">>, <<"F">>, "condition", 1, FALSE, 0, 0),
      LNode(<<"b">>, <<"T">>, "condition", 2, TRUE, Px(400), Px(300)),
      LNode(<<"c">>, <<"A">>, "symptom", 0, FALSE, 0, 0),
      LNode(<<"d">>, <<"P">>, "medication", 1, TRUE, Px(600), Px(300)),
      LNode(<<"c">>, <<"R">>, "medication", 3, FALSE, 0, 0),
      LNode(<<"e">>, <<"S">>, "symptom", 0, FALSE, 0, 0) }

\* the node lists of fragments: ids are unique within a fragment
LayoutFragments ==
    {ns \in ListsUpTo(LayoutPool, MaxLayoutFragNodes) :
        \A i, j \in 1..Len(ns) : i < j => ns[i].id # ns[j].id}

Digits == <<"0", "1", "2", "3", "4", "5", "6", "7", "8", "9", "X", "Y">>

\* c condition nodes followed by o symptom nodes, all ids and labels different
RowOfNodes(c, o) ==
    [i \in 1..(c + o) |->
        IF i <= c
          THEN LNode(<<"k", Digits[i]>>, <<"K", Digits[i]>>, "condition", 1,
                     FALSE, 0, 0)
          ELSE LNode(<<"o", Digits[i - c]>>, <<"O", Digits[i - c]>>, "symptom", 1,
                     FALSE, 0, 0)]

\* n symptom nodes of a large graph, all ids and labels different
CrowdRow(n) ==
    [i \in 1..n |->
        LNode(<<"n", Digits[(i \div 10) + 1], Digits[(i % 10) + 1]>>,
              <<"N", Digits[(i \div 10) + 1], Digits[(i % 10) + 1]>>,
              "symptom", 1, FALSE, 0, 0)]

\* what is laid out: the nodes of a fragment, the nodes of two merged
\* fragments, rows of many conditions, and large graphs
LayoutInputs ==
    {mergeGraphData(Graph(f1, <<>>), Graph(f2, <<>>)).nodes :
        f1, f2 \in LayoutFragments}
    \cup {RowOfNodes(c, o) : c \in 0..MaxConditions, o \in 0..MaxOthers}
    \cup {CrowdRow(n) : n \in 1..MaxCrowd}

\* reduce((prev, current) =>
\*   current.connections.length > prev.connections.length ? current : prev)
RECURSIVE MostConnected(_)
MostConnected(ns) ==
    IF Len(ns) = 1 THEN ns[1]
    ELSE LET prev == MostConnected(SubSeq(ns, 1, Len(ns) - 1))
             current == ns[Len(ns)]
         IN  IF current.conn > prev.conn THEN current ELSE prev

\* the central node: the most connected condition, else the most connected node
CentralNode(nodes) ==
    LET conditionNodes == SelectSeq(nodes, LAMBDA n : n.type = "condition")
    IN  IF Len(conditionNodes) > 0 THEN MostConnected(conditionNodes)
        ELSE MostConnected(nodes)

\* the places in the list of the peripheral nodes, in list order
PeripheralIdx(nodes) ==
    SelectSeq([i \in 1..Len(nodes) |-> i],
              LAMBDA i : nodes[i].id # CentralNode(nodes).id)

\* currentIndex of the peripheral node at list place i: Object.values(nodesByType)
\* goes through the types in the order they first appear, and through the
\* nodes of a type in list order
SlotOf(nodes, i) ==
    LET per == Range(PeripheralIdx(nodes))
        first(j) == CHOOSE k \in per :
                        /\ nodes[k].type = nodes[j].type
                        /\ \A m \in per : nodes[m].type = nodes[j].type => k <= m
    IN  Cardinality({j \in per : \/ first(j) < first(i)
                                  \/ (first(j) = first(i) /\ j < i)})

\* Math.max(180, 120 + peripheralNodes.length * 10)
Radius(total) == IF 120 + total * 10 > 180 THEN 120 + total * 10 ELSE 180

\* angle = (currentIndex / total) * 2 * Math.PI - Math.PI / 2, whose cosine is
\* the sine of the turn and whose sine is minus its cosine
ClientX(total, slot) ==
    Px(400) + RoundDiv(Radius(total) * TurnSin[total][slot + 1], 10000)

ClientY(total, slot) ==
    Px(300) - RoundDiv(Radius(total) * TurnCos[total][slot + 1], 10000)

\* layoutNodes.find(n => n.id === node.id): the first node of that id
FirstWithId(nodes, id) ==
    CHOOSE j \in 1..Len(nodes) :
        /\ nodes[j].id = id
        /\ \A k \in 1..(j - 1) : nodes[k].id # id

\* a layout that moves every peripheral node by its slot's offset from where
\* the node stands, instead of placing it around the center
applyCircularLayout_FromOwnPosition(nodes) ==
    IF Len(nodes) = 0 THEN nodes
    ELSE LET per == Range(PeripheralIdx(nodes))
             total == Cardinality(per)
             slotsOf(j) == {SlotOf(nodes, i) : i \in {k \in per :
                                FirstWithId(nodes, nodes[k].id) = j}}
         IN  [j \in 1..Len(nodes) |->
                IF nodes[j].id = CentralNode(nodes).id
                  THEN Place(nodes[j], Px(400), Px(300))
                ELSE IF slotsOf(j) = {} \/ ~nodes[j].hasXY THEN nodes[j]
                ELSE LET slot == CHOOSE t \in slotsOf(j) :
                                     \A u \in slotsOf(j) : u <= t
                     IN  Place(nodes[j],
                               nodes[j].x + ClientX(total, slot) - Px(400),
                               nodes[j].y + ClientY(total, slot) - Px(300))]

\* applyCircularLayout(nodes): every node of the central id is copied to the
\* center; every peripheral node's slot is written to the first node of its
\* id, a later slot over an earlier one
applyCircularLayout(nodes) ==
    IF Len(nodes) = 0 THEN nodes
    ELSE LET per == Range(PeripheralIdx(nodes))
             total == Cardinality(per)
             slotsOf(j) == {SlotOf(nodes, i) : i \in {k \in per :
                                FirstWithId(nodes, nodes[k].id) = j}}
         IN  [j \in 1..Len(nodes) |->
                IF nodes[j].id = CentralNode(nodes).id
                  THEN Place(nodes[j], Px(400), Px(300))
                ELSE IF slotsOf(j) = {} THEN nodes[j]
                ELSE LET slot == CHOOSE t \in slotsOf(j) :
                                     \A u \in slotsOf(j) : u <= t
                     IN  Place(nodes[j], ClientX(total, slot), ClientY(total, slot))]

\* the renderer's test !node.x || !node.y: a node without coordinates or with
\* a coordinate 0 is not drawn
IsSkipped(n) == ~n.hasXY \/ n.x = 0 \/ n.y = 0

\* the argument of applyCircularLayout after the call: the peripheral nodes
\* are written in place, the central node is a copy
MutatedInput(nodes) ==
    [j \in 1..Len(nodes) |->
        IF nodes[j].id = CentralNode(nodes).id THEN nodes[j]
        ELSE applyCircularLayout(nodes)[j]]

\* the layout of extract-knowledge: the conditions in a row through the
\* center, the others on a circle of radius 200 at rounded positions, the
\* conditions first in the list
ServerLayout(nodes) ==
    LET conditionNodes == SelectSeq(nodes, LAMBDA n : n.type = "condition")
        otherNodes == SelectSeq(nodes, LAMBDA n : n.type # "condition")
        nc == Len(conditionNodes)
        no == Len(otherNodes)
    IN  [i \in 1..nc |->
            IF nc = 1 THEN Place(conditionNodes[i], Px(400), Px(300))
            ELSE Place(conditionNodes[i],
                       Px(400) - ((nc - 1) * Px(50)) \div 2 + (i - 1) * Px(50),
                       Px(300))]
        \o [i \in 1..no |->
               Place(otherNodes[i],
                     Px(400 + RoundDiv(200 * TurnCos[no][i], 1000000)),
                     Px(300 + RoundDiv(200 * TurnSin[no][i], 1000000)))]

LayoutInit ==
    /\ rawNodes \in LayoutInputs
    /\ lastLayout = NoLayout
    /\ accGraph = NULL
    /\ lastCall = NoCall
    /\ ExtractIdle
    /\ UploadIdle
    /\ SaveIdle
    /\ FormIdle

\* KnowledgeGraph renders: displayNodes = applyCircularLayout(rawNodes)
Render ==
    /\ lastLayout' = [kind |-> "client", input |-> rawNodes,
                      output |-> applyCircularLayout(rawNodes)]
    /\ rawNodes' = MutatedInput(rawNodes)
    /\ UNCHANGED <<mergeVars, extractVars, uploadVars, saveVars,
                 formVars>>

\* extract-knowledge lays out knowledgeGraph.nodes before it answers
ExtractLayout ==
    /\ lastLayout' = [kind |-> "server", input |-> rawNodes,
                      output |-> ServerLayout(rawNodes)]
    /\ rawNodes' = ServerLayout(rawNodes)
    /\ UNCHANGED <<mergeVars, extractVars, uploadVars, saveVars,
                 formVars>>

LayoutNext == Render \/ ExtractLayout

SpecLayout == LayoutInit /\ [][LayoutNext]_vars

----------------------------------------------------------------------------
(* SpecForm: PatientInfoForm, its fields, generatePID and handleSubmit *)

MaxNameLen == 3

\* min="0" and max="150" of the age field
MinAge == 0
MaxAge == 150

\* Math.floor(1000 + Math.random() * 9000)
MinSuffix == 1000
SuffixSpan == 9000

DecimalDigits == <<"0", "1", "2", "3", "4", "5", "6", "7", "8", "9">>

\* the decimal text of a natural number, as it is typed into the age field
RECURSIVE DecimalText(_)
DecimalText(n) ==
    IF n < 10 THEN <<DecimalDigits[n + 1]>>
    ELSE Append(DecimalText(n \div 10), DecimalDigits[(n % 10) + 1])

\* the characters typed into the name field
NameChars == {"a", " "}

NameTexts ==
    UNION {[1..n -> NameChars] : n \in 0..MaxNameLen}

AgeTexts == {<<>>} \cup {DecimalText(n) : n \in MinAge..MaxAge}

\* the values Math.floor(1000 + Math.random() * 9000) takes at the two ends
\* and in the middle of Math.random()'s range
Suffixes == {MinSuffix, MinSuffix + (SuffixSpan \div 2), MinSuffix + SuffixSpan - 1}

\* name.replace(/\s+/g, '')
removeSpaces(s) == SelectSeq(s, LAMBDA c : c \notin WhiteSpace)

\* s.substring(0, n)
substring0(s, n) == SubSeq(s, 1, IF Len(s) < n THEN Len(s) ELSE n)

\* s.padEnd(n, c) and s.padStart(n, c) with a one-character c
padEnd(s, n, c) ==
    IF Len(s) >= n THEN s ELSE s \o [i \in 1..(n - Len(s)) |-> c]

padStart(s, n, c) ==
    IF Len(s) >= n THEN s ELSE [i \in 1..(n - Len(s)) |-> c] \o s

\* generatePID(name, age), randomNum being the value of the random suffix
generatePID(name, age, randomNum) ==
    padEnd(toUpperCase(substring0(removeSpaces(name), 3)), 3, "X")
    \o padStart(age, 2, "0")
    \o DecimalText(randomNum)

\* isNaN(Number(age)) for the texts of the age field: digits only
isNaNNumber(age) == \E i \in 1..Len(age) : age[i] \notin Range(DecimalDigits)

\* isFormValid
isFormValid ==
    /\ Len(trim(form.name)) > 0
    /\ Len(trim(form.age)) > 0
    /\ ~isNaNNumber(form.age)

FormInit ==
    /\ form = NoForm
    /\ accGraph = NULL
    /\ lastCall = NoCall
    /\ ExtractIdle
    /\ UploadIdle
    /\ SaveIdle
    /\ LayoutIdle

\* onChange of the name field
SetName(n) ==
    /\ ~form.registered
    /\ ~form.isSubmitting
    /\ n # form.name
    /\ form' = [form EXCEPT !.name = n]
    /\ UNCHANGED <<mergeVars, extractVars, uploadVars, saveVars, layoutVars>>

\* onChange of the age field
SetAge(a) ==
    /\ ~form.registered
    /\ ~form.isSubmitting
    /\ a # form.age
    /\ form' = [form EXCEPT !.age = a]
    /\ UNCHANGED <<mergeVars, extractVars, uploadVars, saveVars, layoutVars>>

\* handleSubmit up to its await: the button is enabled, the PID is generated
\* and the insert into patients is sent
HandleSubmit(randomNum) ==
    /\ ~form.registered
    /\ ~form.isSubmitting
    /\ isFormValid
    /\ form' = [form EXCEPT !.isSubmitting = TRUE,
                            !.pid = generatePID(form.name, form.age, randomNum),
                            !.suffix = randomNum]
    /\ UNCHANGED <<mergeVars, extractVars, uploadVars, saveVars, layoutVars>>

\* the insert returns: on success onSubmit and onPatientCreated run (the page
\* keeps the PID and the patient's row id and unmounts the form), on an error
\* a toast is shown and the PID of the attempt is gone with the handler
InsertReturns(ok, p) ==
    /\ form.isSubmitting
    /\ form' = IF ok THEN [form EXCEPT !.isSubmitting = FALSE, !.registered = TRUE]
               ELSE [form EXCEPT !.isSubmitting = FALSE, !.pid = <<>>,
                                 !.suffix = 0]
    /\ currentPatientId' = IF ok THEN p ELSE currentPatientId
    /\ effects' = IF ok THEN StartEffect(shownGraph, p) ELSE effects
    /\ UNCHANGED <<shownGraph, graphAnalysis, table>>
    /\ UNCHANGED <<mergeVars, extractVars, uploadVars, layoutVars>>

FormNext ==
    \/ \E n \in NameTexts : SetName(n)
    \/ \E a \in AgeTexts : SetAge(a)
    \/ \E randomNum \in Suffixes : HandleSubmit(randomNum)
    \/ \E ok \in BOOLEAN, p \in Patients : InsertReturns(ok, p)

SpecForm == FormInit /\ [][FormNext]_vars

----------------------------------------------------------------------------
(* Claims about the merge *)

NodeKeys(g) == {NodeKey(n) : n \in Range(g.nodes)}

\* the (source, target, label) triple of an edge, compared case-insensitively
EdgeTriple(e) ==
    <<OptLowerCase(e.source), OptLowerCase(e.target), OptLowerCase(e.label)>>

CountNodes(g, key) == Cardinality({i \in 1..Len(g.nodes) : NodeKey(g.nodes[i]) = key})

CountEdges(g, key) == Cardinality({i \in 1..Len(g.edges) : EdgeKey(g.edges[i]) = key})

\* C1: after any sequence of mergeGraphData calls starting from null, no two
\* nodes of the accumulated graph have labels that are equal ignoring case.
C1_NoDuplicateLabels ==
    \A i, j \in 1..Len(accGraph.nodes) :
        i < j => NodeKey(accGraph.nodes[i]) # NodeKey(accGraph.nodes[j])

\* C2: after any sequence of mergeGraphData calls starting from null, no two
\* edges of the accumulated graph have (source, target, label) triples that
\* are equal ignoring case.
C2_NoDuplicateEdges ==
    \A i, j \in 1..Len(accGraph.edges) :
        i < j => EdgeTriple(accGraph.edges[i]) # EdgeTriple(accGraph.edges[j])

\* C3: merging the fragment of the last call once more into the result of
\* that call gives the same nodes and the same edges as the call gave.
C3_MergeIdempotent ==
    ( /\ lastCall.called
      /\ ~lastCall.threw
      /\ lastCall.incoming.hasNodes
      /\ lastCall.incoming.hasEdges ) =>
        LET again == mergeGraphData(lastCall.result, lastCall.incoming)
        IN  /\ again.nodes = lastCall.result.nodes
            /\ again.edges = lastCall.result.edges

\* a merge into a non-empty graph that admitted one incoming node and
\* refused another
C3_Witness ==
    /\ lastCall.called
    /\ ~lastCall.threw
    /\ ~IsEmptyGraph(lastCall.existing)
    /\ Len(lastCall.result.nodes) > Len(lastCall.existing.nodes)
    /\ Len(lastCall.result.nodes) <
           Len(lastCall.existing.nodes) + Len(lastCall.incoming.nodes)

\* C4: when an incoming node has, ignoring case, the label of a node of the
\* existing graph, the result holds that existing node unchanged at its place
\* and holds no more nodes of that label than the existing graph did.
C4_FirstSeenWins ==
    lastCall.called =>
        \A n \in Range(lastCall.incoming.nodes) :
            \A i \in 1..Len(lastCall.existing.nodes) :
                NodeKey(lastCall.existing.nodes[i]) = NodeKey(n) =>
                    /\ Len(lastCall.result.nodes) >= i
                    /\ lastCall.result.nodes[i] = lastCall.existing.nodes[i]
                    /\ CountNodes(lastCall.result, NodeKey(n)) =
                           CountNodes(lastCall.existing, NodeKey(n))

\* an incoming node re-describes an existing label with other attributes,
\* next to an incoming node that is admitted
C4_Witness ==
    /\ lastCall.called
    /\ \E n \in Range(lastCall.incoming.nodes) :
           \E m \in Range(lastCall.existing.nodes) :
               /\ NodeKey(n) = NodeKey(m)
               /\ n.label # m.label
               /\ n.data # m.data
    /\ Len(lastCall.result.nodes) > Len(lastCall.existing.nodes)

\* C5: of several incoming nodes with one lower-cased label that the existing
\* graph does not hold, only the first is admitted; the same for the edges
\* with one lower-cased source-target-label key.
C5_FragmentDuplicatesCollapsed ==
    lastCall.called =>
        /\ \A i, j \in 1..Len(lastCall.incoming.nodes) :
               LET key == NodeKey(lastCall.incoming.nodes[i])
               IN  ( /\ i < j
                     /\ key = NodeKey(lastCall.incoming.nodes[j])
                     /\ key \notin NodeKeys(lastCall.existing) )
                   => CountNodes(lastCall.result, key) = 1
        /\ \A i, j \in 1..Len(lastCall.incoming.edges) :
               LET key == EdgeKey(lastCall.incoming.edges[i])
               IN  ( /\ i < j
                     /\ key = EdgeKey(lastCall.incoming.edges[j])
                     /\ key \notin {EdgeKey(e) : e \in Range(lastCall.existing.edges)} )
                   => CountEdges(lastCall.result, key) = 1

\* C12: a mergeGraphData call with a non-empty existing graph and a fragment
\* whose nodes array or edges array is missing does not raise and returns the
\* existing graph unchanged.
C12_MalformedIsEmptyFragment ==
    ( /\ lastCall.called
      /\ ~IsEmptyGraph(lastCall.existing)
      /\ (~lastCall.incoming.hasNodes \/ ~lastCall.incoming.hasEdges) ) =>
        /\ ~lastCall.threw
        /\ lastCall.result = lastCall.existing

\* C20: when every fragment merged so far had the source and the target of
\* each of its edges among the ids of its own nodes, every edge of the
\* accumulated graph starts and ends at the id of a node of that graph.
C20_NoDanglingEdges ==
    lastCall.closedSoFar => IsClosed(accGraph)

\* the list old followed, in their order in new, by exactly the elements of
\* new whose key is not a key of old
IsOldThenAdmitted(result, old, new, Key(_)) ==
    LET k == Len(old)
        oldKeys == {Key(x) : x \in Range(old)}
        admitted == {i \in 1..Len(new) : Key(new[i]) \notin oldKeys}
    IN  /\ Len(result) = k + Cardinality(admitted)
        /\ \A i \in 1..k : result[i] = old[i]
        /\ \A i \in admitted :
               result[k + Cardinality({j \in admitted : j <= i})] = new[i]

\* C24: a merge into a non-empty existing graph returns the existing nodes,
\* unchanged and in their order, followed by the admitted incoming nodes in
\* their incoming order, and the same for the edges.
C24_ExistingThenNew ==
    (lastCall.called /\ ~lastCall.threw /\ ~IsEmptyGraph(lastCall.existing)) =>
        /\ IsOldThenAdmitted(lastCall.result.nodes, lastCall.existing.nodes,
                             lastCall.incoming.nodes, NodeKey)
        /\ IsOldThenAdmitted(lastCall.result.edges, lastCall.existing.edges,
                             lastCall.incoming.edges, EdgeKey)

\* a merge into a non-empty graph that admitted one incoming node and dropped
\* another
C24_Witness ==
    /\ lastCall.called
    /\ ~lastCall.threw
    /\ ~IsEmptyGraph(lastCall.existing)
    /\ Len(lastCall.result.nodes) > Len(lastCall.existing.nodes)
    /\ Len(lastCall.result.nodes) <
           Len(lastCall.existing.nodes) + Len(lastCall.incoming.nodes)
    /\ Len(lastCall.existing.nodes) > 0

\* C27: when in every fragment merged so far each node's connections were the
\* ids adjacent to it through the fragment's edges, each node's connections
\* in the accumulated graph are the ids adjacent to it through the
\* accumulated graph's edges.
C27_ConnectionsAreAdjacency ==
    (lastCall.called /\ lastCall.adjacentSoFar) => HasAdjacency(accGraph)

\* C21: when every fragment merged so far had unique node ids, no two nodes
\* of the accumulated graph share an id.
C21_UniqueIds ==
    lastCall.uniqueSoFar => HasUniqueIds(accGraph)

----------------------------------------------------------------------------
(* Claims about the extract-knowledge handler *)

\* C7: the extraction call is issued only after the classification call has
\* returned with a reply that affirms medical content; every reply that
\* denies it or is ambiguous is answered 400 with isMedical false and without
\* nodes or edges.
C7_HardRejection ==
    /\ ("extract" \in Range(gatewayCalls)) =>
           /\ gatewayCalls = <<"classify", "extract">>
           /\ validation.status = 200
           /\ validation.meaning = "yes"
    /\ (validation.status = 200 /\ validation.meaning # "yes") =>
           httpResponse = NonMedicalResponse

\* C22: the endpoint answers 400 with isMedical false to a classification
\* that is not medical, 429 to a gateway reply 429 and 402 to a gateway reply
\* 402 at the classification call as at the extraction call, 500 to any other
\* failure, and 200 with nodes and edges to a success.
C22_StatusMapping ==
    handlerPc = "responded" =>
        /\ httpResponse.status \in {200, 400, 429, 402, 500}
        /\ (validation.status = 429) => (httpResponse.status = 429)
        /\ (validation.status = 402) => (httpResponse.status = 402)
        /\ (validation.status = 200
               /\ ~IsMedical(ValidationResult(validation.content))) =>
               httpResponse = NonMedicalResponse
        /\ (httpResponse.status \in {429, 402}) =>
               \/ validation.status = httpResponse.status
               \/ "extract" \in Range(gatewayCalls)
        /\ (httpResponse.status = 200) =>
               /\ ~httpResponse.error
               /\ httpResponse.body # NULL

----------------------------------------------------------------------------
(* Claims about the registration form *)

\* C23: the PID generated for a name and an age the form accepts has exactly
\* nine characters: the first three non-space characters of the name in
\* upper case, padded on the right with 'X'; the age as two digits; a
\* four-digit suffix in 1000..9999.
C23_PidShape ==
    (form.isSubmitting \/ form.registered) =>
        /\ Len(form.pid) = 9
        /\ SubSeq(form.pid, 1, 3) =
               padEnd(toUpperCase(substring0(removeSpaces(form.name), 3)), 3, "X")
        /\ SubSeq(form.pid, 4, 5) = padStart(form.age, 2, "0")
        /\ SubSeq(form.pid, 6, 9) = DecimalText(form.suffix)
        /\ form.suffix \in MinSuffix..(MinSuffix + SuffixSpan - 1)

----------------------------------------------------------------------------
(* Claims about the upload component *)

\* the rejections of the claim: status not ok, an error field, isMedical false
IsRejection(r) == ~r.throws /\ (~r.ok \/ r.error \/ r.isMedical = "false")

\* C6: for a response that is a rejection, processWithAI does not call
\* mergeGraphData and returns exactly the graph it was given; the file is in
\* no merge of its batch.
C6_RejectionNeverMerged ==
    /\ (lastProcessed.returned /\ IsRejection(lastProcessed.response)) =>
           /\ ~lastProcessed.merged
           /\ ~lastProcessed.isValid
           /\ lastProcessed.graphOut = lastProcessed.graphIn
    /\ \A b \in Batches, k \in FileIdx :
           (file[b][k].request = "settled" /\ file[b][k].fragment = NULL) =>
               /\ k \notin batch[b].merged
               /\ k \notin Range(batch[b].pushed)

\* a rejection whose body carries a node the running, non-empty graph lacks
C6_Witness ==
    /\ lastProcessed.returned
    /\ IsRejection(lastProcessed.response)
    /\ ~IsEmptyGraph(lastProcessed.graphIn)
    /\ \E n \in Range(lastProcessed.response.body.nodes) :
           NodeKey(n) \notin NodeKeys(lastProcessed.graphIn)

\* C8: when two processAllFiles runs have overlapped and both have ended, the
\* page's graph (the last one delivered) holds a node for every label of
\* every valid fragment of both batches.
C8_NoLostUpdate ==
    (overlapped /\ \A b \in Batches : batch[b].phase = "done") =>
        \A b \in Batches, k \in FileIdx :
            file[b][k].fragment # NULL =>
                NodeKeys(file[b][k].fragment) \subseteq NodeKeys(graphData)

\* the valid fragments of batch b, files k..size, in upload order
RECURSIVE UploadOrder(_, _)
UploadOrder(b, k) ==
    IF k > batch[b].size THEN <<>>
    ELSE (IF file[b][k].fragment # NULL THEN <<file[b][k].fragment>> ELSE <<>>)
         \o UploadOrder(b, k + 1)

\* C9: in the parallel variant the graph of a finished batch is the fold of
\* its valid fragments into the pre-batch graph in upload order, whatever
\* order the requests came back in.
C9_FoldInUploadOrder ==
    variant = "parallel" =>
        \A b \in Batches :
            batch[b].phase = "done" =>
                LET inOrder == Fold(batch[b].existing, UploadOrder(b, 1))
                IN  /\ batch[b].accumulatedGraph.nodes = inOrder.nodes
                    /\ batch[b].accumulatedGraph.edges = inOrder.edges

\* C10: a file removed while its request was unresolved has no fragment in the
\* graph its batch delivers.
C10_RemovedNeverMerged ==
    \A b \in Batches, k \in FileIdx :
        file[b][k].removedPending => ~file[b][k].inDelivered

\* every request of the started batch b has come back
AllSettled(b) ==
    /\ batch[b].phase \in {"running", "done", "failed"}
    /\ \A k \in 1..batch[b].size : file[b][k].request = "settled"

\* C11: whatever the other files of a batch came back with, once every request
\* of the batch has come back the run has reached its end, every file still
\* listed shows valid or invalid, every file whose response was a well-formed
\* graph is merged into the graph the batch delivered, and isProcessing is
\* false again when no run is left.
C11_FailureIsolation ==
    /\ \A b \in Batches :
           AllSettled(b) =>
               /\ batch[b].phase = "done"
               /\ \A k \in 1..batch[b].size :
                      /\ (file[b][k].listed /\ variant # "single") =>
                             file[b][k].status \in {"valid", "invalid"}
                      /\ file[b][k].wellFormed =>
                             /\ k \in batch[b].merged
                             /\ batch[b].delivered
                             /\ file[b][k].inDelivered
    /\ (\A b \in Batches : batch[b].phase \in {"none", "dropped"} \/ AllSettled(b))
           => ~isProcessing

\* C13: when a batch was dropped after the batch before it had ended and
\* delivered its graph, then once the later batch has ended the page's graph
\* still starts with the nodes and the edges the earlier batch delivered.
C13_RunningGraphPreserved ==
    \A b \in Batches :
        ( /\ batch[b].successive
          /\ batch[b].phase = "done"
          /\ batch[b - 1].delivered ) =>
            LET first == batch[b - 1].accumulatedGraph
            IN  /\ Len(graphData.nodes) >= Len(first.nodes)
                /\ SubSeq(graphData.nodes, 1, Len(first.nodes)) = first.nodes
                /\ Len(graphData.edges) >= Len(first.edges)
                /\ SubSeq(graphData.edges, 1, Len(first.edges)) = first.edges

\* C14: no file is requested twice, and when the run of a batch has ended
\* every file of the batch has been requested once.
C14_OneRequestPerFile ==
    \A b \in Batches, k \in FileIdx :
        /\ file[b][k].requests <= 1
        /\ (batch[b].phase = "done" /\ k <= batch[b].size) =>
               file[b][k].requests = 1

\* an extraction request of the component has not come back yet
SomeRequestUnresolved ==
    \E b \in Batches, k \in FileIdx : file[b][k].request = "pending"

\* C30: isProcessing is true in every state in which a request the component
\* issued is unresolved, also when two batches overlap, and false when none
\* is.
C30_ProcessingFlag ==
    isProcessing <=> SomeRequestUnresolved

----------------------------------------------------------------------------
(* Claims about the page's persistence *)

\* C15: the knowledge_graphs table never holds more than one row of a patient.
C15_OneRowPerPatient ==
    \A p \in Patients : Cardinality(RowsOf(p)) <= 1

\* C16: a run of the effect that was started for a non-empty graph with a
\* patient current and has ended has written that graph's nodes and edges to
\* the patient's record, whatever the analyze-graph call came back with.
C16_WriteAfterEveryMerge ==
    \A i \in EffectIdx :
        (effects[i].pc = "done" /\ effects[i].patient # NoPatient) =>
            effects[i].wrote \in {"update", "insert"}

\* the runs of the effect that have started
StartedRuns == {i \in EffectIdx : effects[i].pc # "none"}

\* C29: when the graph has changed while analyses were under way and every
\* analysis and save has finished successfully, the displayed analysis and
\* the persisted nodes and edges are those of the graph now in memory, in
\* whatever order the responses came.
C29_LatestGraphWins ==
    ( /\ Cardinality(StartedRuns) >= 2
      /\ \A i \in StartedRuns :
             /\ effects[i].pc = "done"
             /\ effects[i].patient = currentPatientId
             /\ effects[i].wrote \in {"update", "insert"}
      /\ \E i \in StartedRuns :
             /\ \A j \in StartedRuns : j <= i
             /\ effects[i].graph = shownGraph ) =>
        /\ graphAnalysis = shownGraph
        /\ \A j \in RowsOf(currentPatientId) :
               /\ table[j].graph = shownGraph
               /\ table[j].analysis = shownGraph

----------------------------------------------------------------------------
(* Claims about the layouts *)

\* the square of the distance of a placed node to the center (400, 300)
DistSq(n) ==
    (n.x - Px(400)) * (n.x - Px(400)) + (n.y - Px(300)) * (n.y - Px(300))

\* C17: in the result of either layout every placed condition node is
\* strictly nearer to the center (400, 300) than every placed node that is
\* not a condition.
C17_ConditionsNearer ==
    lastLayout.kind # "none" =>
        \A c, o \in Range(lastLayout.output) :
            ( /\ c.type = "condition" /\ c.hasXY
              /\ o.type # "condition" /\ o.hasXY ) => DistSq(c) < DistSq(o)

\* C18: every node applyCircularLayout returns for a non-empty list stands
\* where the layout puts it: a node of the central id at the center, every
\* other node at the slot of its own place in the list.
C18_EveryNodePlaced ==
    (lastLayout.kind = "client" /\ Len(lastLayout.input) > 0) =>
        LET nodes == lastLayout.input
            total == Len(PeripheralIdx(nodes))
        IN  \A j \in 1..Len(nodes) :
                LET out == lastLayout.output[j]
                IN  /\ out.hasXY
                    /\ IF nodes[j].id = CentralNode(nodes).id
                         THEN out.x = Px(400) /\ out.y = Px(300)
                         ELSE /\ out.x = ClientX(total, SlotOf(nodes, j))
                              /\ out.y = ClientY(total, SlotOf(nodes, j))

\* C19: laying out the result of a layout again changes nothing, and so does
\* laying out once more the list applyCircularLayout was given (which the
\* first call has written to).
C19_LayoutStable ==
    /\ lastLayout.kind = "client" =>
           /\ applyCircularLayout(lastLayout.output) = lastLayout.output
           /\ applyCircularLayout(rawNodes) = lastLayout.output
    /\ lastLayout.kind = "server" =>
           ServerLayout(lastLayout.output) = lastLayout.output

\* a client layout that moved a node which came with coordinates, with at
\* least two nodes on the circle
C19_Witness ==
    /\ lastLayout.kind = "client"
    /\ Len(PeripheralIdx(lastLayout.input)) >= 2
    /\ \E j \in 1..Len(lastLayout.input) :
           /\ lastLayout.input[j].hasXY
           /\ lastLayout.input[j].id # CentralNode(lastLayout.input).id
           /\ lastLayout.output[j].x # lastLayout.input[j].x

\* C25: a graph of exactly one node that is not a condition is laid out with
\* the node straight above the center, at (400, 300 - R) with R > 0, and not
\* at the center.
C25_SingleOtherOnTop ==
    ( /\ lastLayout.kind # "none"
      /\ Len(lastLayout.input) = 1
      /\ lastLayout.input[1].type # "condition" ) =>
        /\ Len(lastLayout.output) = 1
        /\ lastLayout.output[1].hasXY
        /\ lastLayout.output[1].x = Px(400)
        /\ lastLayout.output[1].y < Px(300)

\* C26: applyCircularLayout puts the i-th node of the list that is not the
\* central one (counting from 0) at slot i of the circle, whatever the types
\* of the nodes.
C26_InputOrderOnCircle ==
    (lastLayout.kind = "client" /\ Len(lastLayout.input) > 0) =>
        LET nodes == lastLayout.input
            per == PeripheralIdx(nodes)
        IN  \A i \in 1..Len(per) :
                /\ lastLayout.output[per[i]].hasXY
                /\ lastLayout.output[per[i]].x = ClientX(Len(per), i - 1)
                /\ lastLayout.output[per[i]].y = ClientY(Len(per), i - 1)

\* C28: no node applyCircularLayout has positioned has x = 0 or y = 0, so the
\* renderer skips no laid-out node.
C28_NoZeroCoordinate ==
    lastLayout.kind = "client" =>
        \A j \in 1..Len(lastLayout.output) :
            ( \/ lastLayout.input[j].id = CentralNode(lastLayout.input).id
              \/ lastLayout.output[j] # lastLayout.input[j] ) =>
                ~IsSkipped(lastLayout.output[j])

====
